---- MODULE Spec2Model ----
(***************************************************************************)
(* A model of bbb-i2c (JSRagman/BeagleBone-Black-I2C): class I2CBus, its   *)
(* exceptions, and the Linux file-descriptor calls it issues.              *)
(*                                                                         *)
(* Threads call the public operations Read, Write (both overloads) and     *)
(* Xfer on I2CBus instances.  A step of the model is one blocking call of  *)
(* the code (the lock_guard constructor, ::open, ioctl, ::read, ::write,   *)
(* ::close) together with the local statements that follow it, so threads  *)
(* interleave exactly where the code can be preempted.                     *)
(*                                                                         *)
(* The platform is Linux (the source includes linux/i2c-dev.h): ::open     *)
(* returns the lowest free descriptor or -1, and ::close releases the      *)
(* descriptor whatever it returns, so a repeated ::close of the same       *)
(* number either fails with EBADF or closes whatever now has that number.  *)
(***************************************************************************)
EXTENDS Integers, Sequences, FiniteSets, TLC

\* ---------------------------------------------------------------- bounds
NumThreads == 2
NumBuses   == 2
MaxLen     == 1
MaxEintr   == 2

Threads == 1..NumThreads
Buses   == 1..NumBuses
\* Requested lengths are C ints: negative, zero and positive values.
Lens    == (0 - 1)..MaxLen
\* Two device addresses (0x50 and 0x77).
Addrs   == {80, 119}
\* The process' descriptor table: 0..2 are the standard streams.
Fds     == 3..(2 + NumBuses)

\* ------------------------------------------------------ program constants
NoFile == -1
Free   == 0
\* The public operations bbb-i2c.cpp defines, which are those a program can
\* call: Read, Write(data, len, addr), Write(dat, addr) and the five-argument
\* Xfer.
Ops    == {"Read", "Write", "WriteStr", "Xfer"}
\* The public operations class I2CBus declares: the four above and
\* Xfer(addr, idat, ilen, i2caddr), for which the source holds no definition.
Declared == {"Read", "Write", "WriteStr", "Xfer", "XferAddr"}

HexDigits == <<"0", "1", "2", "3", "4", "5", "6", "7",
               "8", "9", "A", "B", "C", "D", "E", "F">>

\* hex << uppercase << setfill('0') << setw(2) << (unsigned int)addr
Hex2(n) == IF n < 16 THEN "0" \o HexDigits[n + 1]
           ELSE HexDigits[(n \div 16) + 1] \o HexDigits[(n % 16) + 1]

\* The bus file name given to the constructor of instance b.
busfile(b) == "/dev/i2c-" \o HexDigits[b]

\* ------------------------------------------------------------- exceptions
NoExc == [type |-> "none", message |-> "", procname |-> ""]

I2CException(msg, proc) ==
    [type |-> "I2CException", message |-> msg, procname |-> proc]

I2CNotFoundException(msg, proc) ==
    [I2CException(msg, proc) EXCEPT !.type = "I2CNotFoundException"]

what(e) == e.message
why(e)  == e.message
who(e)  == e.procname

\* The failures as the code constructs them, argument order included.
OpenError(b) ==
    I2CException("I2CBus::Open(addr)", "Unable to open I2C Bus file " \o busfile(b))

\* A variant that reports a rejected address as a generic failure.
NotFoundAsGeneric(a) ==
    I2CException("I2CBus::Open(addr)",
                 "Unable to find device address " \o "0x" \o Hex2(a))

NotFoundError(a) ==
    I2CNotFoundException("I2CBus::Open(addr)",
                         "Unable to find device address " \o "0x" \o Hex2(a))

ReadLengthError ==
    I2CException("I2CBus::Read(data, len, addr)", "Read length error.")

WriteLengthError ==
    I2CException("I2CBus::Write(data, len, addr)", "Write length error.")

WriteStrLengthError ==
    I2CException("I2CBus::Write(dat, addr)", "Write length error.")

XferWriteLengthError ==
    I2CException("I2CConnection::Xfer(odat, olen, idat, ilen, i2caddr)",
                 "Write length error.")

XferReadLengthError ==
    I2CException("I2CConnection::Xfer(odat, olen, idat, ilen, i2caddr)",
                 "Read length error.")

\* ------------------------------------------------------------------ state
VARIABLES
    live,    \* the I2CBus instances constructed and not yet destroyed
    opened,  \* the instances on which an ::open has succeeded so far
    menu,    \* the calls the program makes: <<thread, instance, operation,
             \* len, ilen, i2caddr>>
    file,    \* file[b]: I2CBus::file of instance b
    mtx,     \* mtx[b]: I2CBus::mtx, Free or the thread that owns it
    fdtab,   \* fdtab[f]: the kernel's open file behind descriptor f
    pc,      \* pc[t]: where thread t stands in its call
    op,      \* op[t]: the public operation t is executing
    bus,     \* bus[t]: the instance t called
    addr,    \* addr[t]: the i2caddr argument
    len,     \* len[t]: len (Read, Write), dat.size (Write string), olen (Xfer)
    ilen,    \* ilen[t]: ilen (Xfer)
    count,   \* count[t]: recvd / sent / count
    pend,    \* pend[t]: the failure the current path throws once it unwinds
    nintr,   \* nintr[t]: EINTR results of t's current Close, up to MaxEintr
    trace,   \* trace[t]: the platform calls t issued in its current call
             \* (of the interrupted ::close calls, the first MaxEintr)
    ret      \* the call that returned in the last step, if any

vars == <<live, opened, menu, file, mtx, fdtab, pc, op, bus, addr, len, ilen, count, pend,
          nintr, trace, ret>>

NoHandle == [bus |-> 0, by |-> 0, slave |-> 0 - 1]
NoRet    == [t |-> 0]

IsOpen(f) == f \in Fds /\ fdtab[f] # NoHandle

HasFreeFd == \E f \in Fds : fdtab[f] = NoHandle

LowestFree == CHOOSE f \in Fds :
                 /\ fdtab[f] = NoHandle
                 /\ \A g \in Fds : g < f => fdtab[g] # NoHandle

\* The thread whose ::open created the open file behind descriptor f (0 when
\* f names no open file).
OwnerOf(f) == IF IsOpen(f) THEN fdtab[f].by ELSE 0

\* A platform call as recorded in a thread's trace: the call, the descriptor
\* it was given, its result and errno, and the owner of the open file it
\* acted on.
Ev(c, f, r, e) == [c |-> c, fd |-> f, r |-> r, e |-> e, h |-> OwnerOf(f)]

\* What ::read / ::write may report for a request of n bytes on an open
\* descriptor: an error, or any count up to the request.
Counts(n) == IF n >= 0 THEN (0 - 1)..n ELSE (0 - 1)..MaxLen

\* I2CBus::I2CBus: busfile = bus; file = -1.  The mutex starts unlocked and no
\* thread is inside a call.
Constructed(bs, cs) ==
    /\ live  = bs
    /\ opened = {}
    /\ menu  = cs
    /\ file  = [b \in Buses |-> NoFile]
    /\ mtx   = [b \in Buses |-> Free]
    /\ fdtab = [f \in Fds |-> NoHandle]
    /\ pc    = [t \in Threads |-> "idle"]
    /\ op    = [t \in Threads |-> "none"]
    /\ bus   = [t \in Threads |-> 0]
    /\ addr  = [t \in Threads |-> 0]
    /\ len   = [t \in Threads |-> 0]
    /\ ilen  = [t \in Threads |-> 0]
    /\ count = [t \in Threads |-> 0]
    /\ pend  = [t \in Threads |-> NoExc]
    /\ nintr = [t \in Threads |-> 0]
    /\ trace = [t \in Threads |-> <<>>]
    /\ ret   = NoRet

\* The argument lists of the public operations.  Write(const string&, addr)
\* takes its length from dat.size(), which is never negative.
ValidCall(o, l, il) ==
    /\ (o = "WriteStr" => l >= 0)
    /\ (o # "Xfer" => il = 0)

\* Every call of every operation, over the lengths and addresses modelled.
AllCalls ==
    {c \in Ops \X Lens \X Lens \X Addrs : ValidCall(c[1], c[2], c[3])}

\* The calls of a program that reads and writes single registers of the
\* device at 0x50.
RegisterCalls ==
    {<<"Read", 1, 0, 80>>, <<"Write", 1, 0, 80>>, <<"Xfer", 1, 1, 80>>}

\* The program in which each thread of ts makes each call of cs on each
\* instance of bs.
Program(ts, bs, cs) ==
    {<<t, b, c[1], c[2], c[3], c[4]>> : t \in ts, b \in bs, c \in cs}

\* One bus, shared by all threads, called in every way.
Init == Constructed({1}, Program(Threads, {1}, AllCalls))

\* Two buses, each with its own instance and its own thread, used for
\* register access.
InitMulti ==
    Constructed({1, 2}, Program({1}, {1}, RegisterCalls)
                           \cup Program({2}, {2}, RegisterCalls))

\* ---------------------------------------------------------------- actions

\* A thread enters a public operation and reaches its lock_guard.
Call(t) ==
    /\ pc[t] = "idle"
    /\ \E c \in menu : c[1] = t /\ c[2] \in live
    /\ pc' = [pc EXCEPT ![t] = "lock"]
    /\ ret' = NoRet
    /\ UNCHANGED <<live, opened, menu, file, mtx, fdtab, op, bus, addr, len, ilen, count,
                   pend, nintr, trace>>

\* A variant without the lock: the call proceeds whoever holds the mutex.
MutexIgnored(b) == TRUE

\* std::mutex: the constructor of lock_guard blocks until the mutex is free.
MutexAvailable(b) == mtx[b] = Free

\* lock_guard<mutex> lck(mtx), with the arguments of the call.
Acquire(t) ==
    /\ pc[t] = "lock"
    /\ \E c \in menu :
          /\ c[1] = t
          /\ c[2] \in live
          /\ MutexAvailable(c[2])
          /\ mtx'  = [mtx EXCEPT ![c[2]] = t]
          /\ bus'  = [bus EXCEPT ![t] = c[2]]
          /\ op'   = [op EXCEPT ![t] = c[3]]
          /\ len'  = [len EXCEPT ![t] = c[4]]
          /\ ilen' = [ilen EXCEPT ![t] = c[5]]
          /\ addr' = [addr EXCEPT ![t] = c[6]]
    /\ pc' = [pc EXCEPT ![t] = "open"]
    /\ ret' = NoRet
    /\ UNCHANGED <<live, opened, menu, file, fdtab, count, pend, nintr, trace>>

\* What ::open may return: the lowest free descriptor, or -1.
OpenResults == {0 - 1} \cup (IF HasFreeFd THEN {LowestFree} ELSE {})

\* A variant that never tests the result of ::open.
OpenNeverFailed(r) == FALSE

\* I2CBus::Open: if (file < 0)
OpenFailed(r) == r < 0

\* I2CBus::Open, first half: file = ::open(busfile, O_RDWR); if (file < 0)
\* throw I2CException.
Open(t) ==
    /\ pc[t] = "open"
    /\ LET b == bus[t] IN
       \E r \in OpenResults :
          /\ fdtab' = IF r >= 0
                      THEN [fdtab EXCEPT ![r] = [bus |-> b, by |-> t, slave |-> 0 - 1]]
                      ELSE fdtab
          /\ file'  = [file EXCEPT ![b] = r]
          /\ opened' = IF r >= 0 THEN opened \cup {b} ELSE opened
          /\ trace' = [trace EXCEPT ![t] =
                          Append(@, [c |-> "open", fd |-> r, r |-> r,
                                     e |-> IF r >= 0 THEN "" ELSE "ENOENT",
                                     h |-> IF r >= 0 THEN t ELSE 0])]
          /\ IF OpenFailed(r)
             THEN /\ pc'   = [pc EXCEPT ![t] = "fin"]
                  /\ pend' = [pend EXCEPT ![t] = OpenError(b)]
             ELSE /\ pc'   = [pc EXCEPT ![t] = "ioctl"]
                  /\ pend' = pend
    /\ ret' = NoRet
    /\ UNCHANGED <<live, menu, mtx, op, bus, addr, len, ilen, count, nintr>>

\* A variant of Open that throws on a rejected ioctl without Close().
AfterBindFailureNoClose == "fin"

\* I2CBus::Open: a rejected ioctl is followed by this->Close().
AfterBindFailure == "close"

\* I2CBus::Open, second half: ioctl(file, I2C_SLAVE, addr); on a negative
\* result Close() and throw I2CNotFoundException.
Bind(t) ==
    /\ pc[t] = "ioctl"
    /\ LET b == bus[t]
           f == file[b] IN
       \E ok \in BOOLEAN :
          IF ok /\ IsOpen(f)
          THEN /\ fdtab' = [fdtab EXCEPT ![f].slave = addr[t]]
               /\ trace' = [trace EXCEPT ![t] = Append(@, Ev("ioctl", f, 0, ""))]
               /\ pc'    = [pc EXCEPT ![t] = "io"]
               /\ pend'  = pend
          ELSE /\ fdtab' = fdtab
               /\ trace' = [trace EXCEPT ![t] =
                               Append(@, Ev("ioctl", f, 0 - 1,
                                            IF IsOpen(f) THEN "ENXIO" ELSE "EBADF"))]
               /\ pc'    = [pc EXCEPT ![t] = AfterBindFailure]
               /\ pend'  = [pend EXCEPT ![t] = NotFoundError(addr[t])]
    /\ nintr' = [nintr EXCEPT ![t] = 0]
    /\ ret' = NoRet
    /\ UNCHANGED <<live, opened, menu, file, mtx, op, bus, addr, len, ilen, count>>

\* The result of ::read / ::write of n bytes on descriptor f.
IoResults(f, n) == IF IsOpen(f) THEN Counts(n) ELSE {0 - 1}

IoErrno(f, r) == IF r >= 0 THEN "" ELSE IF IsOpen(f) THEN "EIO" ELSE "EBADF"

\* A variant that repeats a transfer that came back short.
AfterTransferRetry(r, n, here) == IF r >= 0 /\ r < n THEN here ELSE "close"

\* I2CBus::Read, Write, Xfer: the ::read / ::write is followed by
\* this->Close(), whatever count r it reported for the n bytes requested.
AfterTransfer(r, n, here) == "close"

\* I2CBus::Read: recvd = ::read(file, data, len); this->Close() follows.
Read(t) ==
    /\ pc[t] = "io"
    /\ op[t] = "Read"
    /\ LET f == file[bus[t]] IN
       \E r \in IoResults(f, len[t]) :
          /\ count' = [count EXCEPT ![t] = r]
          /\ trace' = [trace EXCEPT ![t] = Append(@, Ev("read", f, r, IoErrno(f, r)))]
          /\ pc'    = [pc EXCEPT ![t] = AfterTransfer(r, len[t], "io")]
    /\ nintr' = [nintr EXCEPT ![t] = 0]
    /\ ret' = NoRet
    /\ UNCHANGED <<live, opened, menu, file, mtx, fdtab, op, bus, addr, len, ilen, pend>>

\* I2CBus::Write, both overloads: sent = ::write(file, data, len); Close()
\* follows.
Write(t) ==
    /\ pc[t] = "io"
    /\ op[t] \in {"Write", "WriteStr"}
    /\ LET f == file[bus[t]] IN
       \E r \in IoResults(f, len[t]) :
          /\ count' = [count EXCEPT ![t] = r]
          /\ trace' = [trace EXCEPT ![t] = Append(@, Ev("write", f, r, IoErrno(f, r)))]
          /\ pc'    = [pc EXCEPT ![t] = AfterTransfer(r, len[t], "io")]
    /\ nintr' = [nintr EXCEPT ![t] = 0]
    /\ ret' = NoRet
    /\ UNCHANGED <<live, opened, menu, file, mtx, fdtab, op, bus, addr, len, ilen, pend>>

\* A variant that takes only an error return for a failed write.
XferWriteErrorOnly(c, olen) == c < 0

\* I2CBus::Xfer: if (count != olen)
XferWriteShort(c, olen) == c # olen

\* A variant that throws at once, without this->Close().
AfterShortWriteNoClose == "fin"

\* I2CBus::Xfer: a short write is followed by this->Close().
AfterShortWrite == "close"

\* I2CBus::Xfer, write phase: count = ::write(file, odat, olen); on a
\* mismatch Close() and throw, otherwise go on to the read.
XferWrite(t) ==
    /\ pc[t] = "io"
    /\ op[t] = "Xfer"
    /\ LET f == file[bus[t]] IN
       \E r \in IoResults(f, len[t]) :
          /\ count' = [count EXCEPT ![t] = r]
          /\ trace' = [trace EXCEPT ![t] = Append(@, Ev("write", f, r, IoErrno(f, r)))]
          /\ IF XferWriteShort(r, len[t])
             THEN /\ pc'   = [pc EXCEPT ![t] = AfterShortWrite]
                  /\ pend' = [pend EXCEPT ![t] = XferWriteLengthError]
             ELSE /\ pc'   = [pc EXCEPT ![t] = "io2"]
                  /\ pend' = pend
    /\ nintr' = [nintr EXCEPT ![t] = 0]
    /\ ret' = NoRet
    /\ UNCHANGED <<live, opened, menu, file, mtx, fdtab, op, bus, addr, len, ilen>>

\* I2CBus::Xfer, read phase: count = ::read(file, idat, ilen); Close() follows.
XferRead(t) ==
    /\ pc[t] = "io2"
    /\ LET f == file[bus[t]] IN
       \E r \in IoResults(f, ilen[t]) :
          /\ count' = [count EXCEPT ![t] = r]
          /\ trace' = [trace EXCEPT ![t] = Append(@, Ev("read", f, r, IoErrno(f, r)))]
          /\ pc'    = [pc EXCEPT ![t] = AfterTransfer(r, ilen[t], "io2")]
    /\ nintr' = [nintr EXCEPT ![t] = 0]
    /\ ret' = NoRet
    /\ UNCHANGED <<live, opened, menu, file, mtx, fdtab, op, bus, addr, len, ilen, pend>>

\* What ::close(f) may return: 0, or -1 with errno; a signal may interrupt
\* any close of an open file.
CloseResults(t, f) ==
    IF ~IsOpen(f) THEN {"EBADF"} ELSE {"", "EIO", "EINTR"}

\* The kernel's side of ::close(f): the descriptor is released whatever
\* the call returns.
Released(f) == IF IsOpen(f) THEN [fdtab EXCEPT ![f] = NoHandle] ELSE fdtab

\* A variant of Close without the test of the handle.
CloseAlways(f) == TRUE

\* I2CBus::Close: if (file != -1)
CloseNeeded(f) == f # NoFile

\* A variant that forgets to reset the descriptor field.
ClosedButKept(b) == file

\* I2CBus::Close: file = -1
Closed(b) == [file EXCEPT ![b] = NoFile]

\* I2CBus::Close: if (closeresult < 0) if (errno == EINTR)
Interrupted(e) == e = "EINTR"

\* A variant that retries ::close once and takes whatever that returns.
RetryOnce(e) == FALSE

\* TEMP_FAILURE_RETRY: the expression is evaluated again while it yields -1
\* with errno EINTR.
RetryAgain(e) == e = "EINTR"

\* I2CBus::Close up to its first ::close: errno = 0; if (file != -1)
\* { closeresult = ::close(file); if (closeresult < 0 && errno == EINTR)
\* retry; file = -1; }
Close(t) ==
    /\ pc[t] = "close"
    /\ LET b == bus[t]
           f == file[b] IN
       IF ~CloseNeeded(f)
       THEN /\ pc' = [pc EXCEPT ![t] = "fin"]
            /\ UNCHANGED <<file, fdtab, trace, nintr>>
       ELSE \E e \in CloseResults(t, f) :
               /\ fdtab' = Released(f)
               /\ trace' = [trace EXCEPT ![t] =
                               Append(@, Ev("close", f, IF e = "" THEN 0 ELSE 0 - 1, e))]
               /\ IF Interrupted(e)
                  THEN /\ pc'    = [pc EXCEPT ![t] = "retry"]
                       /\ nintr' = [nintr EXCEPT ![t] = @ + 1]
                       /\ file'  = file
                  ELSE /\ pc'    = [pc EXCEPT ![t] = "fin"]
                       /\ nintr' = nintr
                       /\ file'  = Closed(b)
    /\ ret' = NoRet
    /\ UNCHANGED <<live, opened, menu, mtx, op, bus, addr, len, ilen, count, pend>>

\* The trace and the count of interruptions of t's Close still have room
\* for one more interrupted ::close.
Recorded(t) == nintr[t] < MaxEintr

\* I2CBus::Close, TEMP_FAILURE_RETRY (::close(file)): the call is repeated
\* for as long as it returns -1 with errno EINTR; then file = -1.  The
\* interrupted retries past MaxEintr take place and leave no record.
CloseRetry(t) ==
    /\ pc[t] = "retry"
    /\ LET b == bus[t]
           f == file[b] IN
       \E e \in CloseResults(t, f) :
          /\ fdtab' = Released(f)
          /\ IF RetryAgain(e)
             THEN /\ pc'    = pc
                  /\ nintr' = [nintr EXCEPT ![t] = IF Recorded(t) THEN @ + 1 ELSE @]
                  /\ trace' = IF Recorded(t)
                              THEN [trace EXCEPT ![t] = Append(@, Ev("close", f, 0 - 1, e))]
                              ELSE trace
                  /\ file'  = file
             ELSE /\ pc'    = [pc EXCEPT ![t] = "fin"]
                  /\ nintr' = nintr
                  /\ trace' = [trace EXCEPT ![t] =
                                  Append(@, Ev("close", f, IF e = "" THEN 0 ELSE 0 - 1, e))]
                  /\ file'  = Closed(b)
    /\ ret' = NoRet
    /\ UNCHANGED <<live, opened, menu, mtx, op, bus, addr, len, ilen, count, pend>>

\* A variant that takes only an error return for a failed transfer.
LengthErrorOnly(c, n) == c < 0

\* if (recvd != len) / if (sent != len) / if (count != ilen)
LengthMismatch(c, n) == c # n

\* The failure a call ends with: the one already under way, or the one of
\* the length test that follows Close() in Read, Write and Xfer.
Outcome(t) ==
    IF pend[t] # NoExc THEN pend[t]
    ELSE IF op[t] = "Read" /\ LengthMismatch(count[t], len[t]) THEN ReadLengthError
    ELSE IF op[t] = "Write" /\ LengthMismatch(count[t], len[t]) THEN WriteLengthError
    ELSE IF op[t] = "WriteStr" /\ LengthMismatch(count[t], len[t]) THEN WriteStrLengthError
    ELSE IF op[t] = "Xfer" /\ LengthMismatch(count[t], ilen[t]) THEN XferReadLengthError
    ELSE NoExc

\* A variant that locks by hand and never unlocks.
NeverUnlocked(b) == mtx

\* ~lock_guard: the mutex is released when the call leaves its scope, by
\* return or by exception.
Unlocked(b) == [mtx EXCEPT ![b] = Free]

\* The end of a public operation: the length test, then the return or the
\* throw, which both run the destructor of lck.
Return(t) ==
    /\ pc[t] = "fin"
    /\ op[t] \in Ops
    /\ ret' = [t |-> t, op |-> op[t], bus |-> bus[t], addr |-> addr[t],
               len |-> len[t], ilen |-> ilen[t], trace |-> trace[t],
               exc |-> Outcome(t)]
    /\ mtx' = Unlocked(bus[t])
    /\ pc'    = [pc EXCEPT ![t] = "idle"]
    /\ op'    = [op EXCEPT ![t] = "none"]
    /\ bus'   = [bus EXCEPT ![t] = 0]
    /\ addr'  = [addr EXCEPT ![t] = 0]
    /\ len'   = [len EXCEPT ![t] = 0]
    /\ ilen'  = [ilen EXCEPT ![t] = 0]
    /\ count' = [count EXCEPT ![t] = 0]
    /\ pend'  = [pend EXCEPT ![t] = NoExc]
    /\ nintr' = [nintr EXCEPT ![t] = 0]
    /\ trace' = [trace EXCEPT ![t] = <<>>]
    /\ UNCHANGED <<live, opened, menu, file, fdtab>>

\* Thread u has called an operation of instance b and waits for its mutex.
Waiting(u, b) == pc[u] = "lock" /\ \E c \in menu : c[1] = u /\ c[2] = b

\* I2CBus::~I2CBus up to its this->Close().  The destructor takes no lock; an
\* instance is destroyed once, by a thread that is in no call, when no call
\* on it is in progress or waiting.
Destroy(t) ==
    /\ pc[t] = "idle"
    /\ \E b \in live :
          /\ mtx[b] = Free
          /\ \A u \in Threads : ~Waiting(u, b)
          /\ live' = live \ {b}
          /\ bus'  = [bus EXCEPT ![t] = b]
    /\ op'    = [op EXCEPT ![t] = "~I2CBus"]
    /\ pc'    = [pc EXCEPT ![t] = "close"]
    /\ nintr' = [nintr EXCEPT ![t] = 0]
    /\ ret'   = NoRet
    /\ UNCHANGED <<opened, menu, file, mtx, fdtab, addr, len, ilen, count, pend,
                   trace>>

\* I2CBus::~I2CBus after its Close(): the destructor returns.
Destroyed(t) ==
    /\ pc[t] = "fin"
    /\ op[t] = "~I2CBus"
    /\ pc'    = [pc EXCEPT ![t] = "idle"]
    /\ op'    = [op EXCEPT ![t] = "none"]
    /\ bus'   = [bus EXCEPT ![t] = 0]
    /\ nintr' = [nintr EXCEPT ![t] = 0]
    /\ trace' = [trace EXCEPT ![t] = <<>>]
    /\ ret'   = NoRet
    /\ UNCHANGED <<live, opened, menu, file, mtx, fdtab, addr, len, ilen, count,
                   pend>>

Next ==
    \E t \in Threads :
       \/ Call(t)
       \/ Acquire(t)
       \/ Open(t)
       \/ Bind(t)
       \/ Read(t)
       \/ Write(t)
       \/ XferWrite(t)
       \/ XferRead(t)
       \/ Close(t)
       \/ CloseRetry(t)
       \/ Return(t)
       \/ Destroy(t)
       \/ Destroyed(t)

Spec == Init /\ [][Next]_vars

SpecMulti == InitMulti /\ [][Next]_vars

\* The steps of thread t that follow from the return of a platform call or
\* from the end of a scope: every platform call returns, and a thread that
\* can run does run.
Step(t) ==
    \/ Open(t) \/ Bind(t) \/ Read(t) \/ Write(t) \/ XferWrite(t) \/ XferRead(t)
    \/ Close(t) \/ CloseRetry(t) \/ Return(t) \/ Destroyed(t)

\* Fair scheduling: no thread is held up for ever before a step it can take,
\* and a thread that waits for a mutex that is free again and again gets it.
Fairness == \A t \in Threads : WF_vars(Step(t)) /\ SF_vars(Acquire(t))

\* The two buses of SpecMulti under fair scheduling.
SpecFair == InitMulti /\ [][Next]_vars /\ Fairness

\* ----------------------------------------------------- claim vocabulary

Returned == ret # NoRet

\* Thread t holds the mutex inside a public operation.
Inside(t) == pc[t] \in {"open", "ioctl", "io", "io2", "close", "retry", "fin"}

\* Thread u is between its successful ::open and the end of its Close().
InSession(u) == pc[u] \in {"ioctl", "io", "io2", "close", "retry"}

\* Thread t issues a platform call in this step.
PlatformCall(t) == Len(trace'[t]) > Len(trace[t])

HasCall(tr, c) == \E i \in 1..Len(tr) : tr[i].c = c

\* The open files the kernel holds for instance b.
HandlesOf(b) == {f \in Fds : fdtab[f] # NoHandle /\ fdtab[f].bus = b}

\* The platform ::open of this trace succeeded.
OpenedOk(tr) == Len(tr) >= 1 /\ tr[1].c = "open" /\ tr[1].r >= 0

\* ::open succeeded and the ioctl that binds the address was accepted.
BoundOk(tr) == OpenedOk(tr) /\ Len(tr) >= 2 /\ tr[2].c = "ioctl" /\ tr[2].r = 0

\* ::open succeeded and the ioctl that binds the address was rejected.
BindRejected(tr) == OpenedOk(tr) /\ Len(tr) >= 2 /\ tr[2].c = "ioctl" /\ tr[2].r < 0

\* ------------------------------------------------------------------ claims

\* C1: sessions on one I2CBus instance never overlap: while a thread is
\* between its platform open and the end of its close, no other thread
\* calling the same instance issues a platform open, bind, read, write or
\* close.
C1_SessionsNeverOverlap ==
    [][\A t \in Threads, u \in Threads :
          (t # u /\ InSession(u) /\ PlatformCall(t)) => bus'[t] # bus[u]]_vars

\* C1 witness: a session is in progress after its write while another thread
\* has called the bus and waits at the mutex.
C1_Witness ==
    \E t \in Threads, u \in Threads :
       /\ t # u
       /\ pc[t] = "lock"
       /\ pc[u] = "close"
       /\ HasCall(trace[u], "write")

\* C2: an instance has at most one platform handle open; its handle field
\* differs from -1 only while a thread holds its mutex inside a public
\* operation; when the mutex is free the handle is absent.
C2_HandleOnlyUnderMutex ==
    \A b \in Buses :
       /\ Cardinality(HandlesOf(b)) <= 1
       /\ file[b] # NoFile =>
             \E t \in Threads : mtx[b] = t /\ Inside(t) /\ bus[t] = b
       /\ mtx[b] = Free => (file[b] = NoFile /\ HandlesOf(b) = {})

\* C2 witness: the mutex is free again, after a call that had bound a handle
\* and went through an interrupted close.
C2_Witness ==
    /\ Returned
    /\ mtx[ret.bus] = Free
    /\ BoundOk(ret.trace)
    /\ \E i \in 1..Len(ret.trace) : ret.trace[i].e = "EINTR"

\* C3: when Read, Write or Xfer returns, normally or with any failure, the
\* handle field of the bus is -1 and no platform handle opened by that
\* call is still open.
C3_ClosedOnReturn ==
    Returned =>
       /\ file[ret.bus] = NoFile
       /\ \A f \in Fds : fdtab[f] = NoHandle \/ fdtab[f].by # ret.t

\* C3 witness: an Xfer returned with the failure of a short write.
C3_Witness ==
    /\ Returned
    /\ ret.op = "Xfer"
    /\ ret.exc = XferWriteLengthError

\* C4: the mutex is released on every exit path: once a call has returned,
\* by return or by failure, the bus is unlocked, and a thread that is not
\* inside a call never owns a mutex.
C4_MutexReleasedOnReturn ==
    /\ Returned => mtx[ret.bus] = Free
    /\ \A t \in Threads, b \in Buses : mtx[b] = t => Inside(t)

\* C4 witness: a call failed with device-not-found while another caller was
\* waiting for the mutex.
C4_Witness ==
    /\ Returned
    /\ ret.exc.type = "I2CNotFoundException"
    /\ \E t \in Threads : pc[t] = "lock"

\* C5: once open and bind succeeded, Read, Write and Write(string) return
\* without failure exactly when the platform call reported len bytes; any
\* other count raises the generic failure.
C5_ExactLengthOrFailure ==
    (Returned /\ ret.op \in {"Read", "Write", "WriteStr"} /\ BoundOk(ret.trace)) =>
       /\ Len(ret.trace) >= 3
       /\ ret.trace[3].c = (IF ret.op = "Read" THEN "read" ELSE "write")
       /\ (ret.exc = NoExc) <=> (ret.trace[3].r = ret.len)
       /\ ret.exc # NoExc => ret.exc.type = "I2CException"

\* C5 witness: a Read of one byte for which the platform reported none.
C5_Witness ==
    /\ Returned
    /\ ret.op = "Read"
    /\ ret.len = 1
    /\ BoundOk(ret.trace)
    /\ ret.trace[3].r = 0
    /\ ret.exc.type = "I2CException"

\* C6: a call raises I2CNotFoundException exactly when the device file
\* opened and the address binding was rejected; nothing else raises it and
\* a rejected binding raises nothing else.
C6_NotFoundIffBindRejected ==
    Returned =>
       ((ret.exc.type = "I2CNotFoundException") <=> BindRejected(ret.trace))

\* C6 witness: a call whose binding was rejected has returned.
C6_Witness ==
    /\ Returned
    /\ BindRejected(ret.trace)

\* C7: in Xfer the platform read is issued only after a platform write that
\* reported exactly olen; after any other write count no read is issued,
\* the call raises the generic failure and the handle is closed.
C7_XferReadOnlyAfterFullWrite ==
    /\ \A t \in Threads :
          (op[t] = "Xfer" /\ HasCall(trace[t], "read")) =>
             /\ Len(trace[t]) >= 4
             /\ trace[t][3].c = "write"
             /\ trace[t][3].r = len[t]
    /\ (Returned /\ ret.op = "Xfer" /\ BoundOk(ret.trace)
          /\ ret.trace[3].r # ret.len) =>
             /\ ~HasCall(ret.trace, "read")
             /\ ret.exc.type = "I2CException"
             /\ HasCall(ret.trace, "close")
             /\ file[ret.bus] = NoFile
             /\ HandlesOf(ret.bus) = {}

\* C7 witness: an Xfer of one byte whose write reported no byte has returned.
C7_Witness ==
    /\ Returned
    /\ ret.op = "Xfer"
    /\ ret.len = 1
    /\ BoundOk(ret.trace)
    /\ ret.trace[3].r = 0

\* The number of platform calls c in a trace that acted on an open file of
\* thread t.
CallsOn(tr, c, t) == Cardinality({i \in 1..Len(tr) : tr[i].c = c /\ tr[i].h = t})

\* C8: in an Xfer whose write reported olen, the write and the read use the
\* handle the call opened, in one session: between them the caller owns the
\* mutex, the handle is open and was neither closed nor reopened, and no
\* other thread has issued a platform call on the instance; the handle is
\* closed exactly once, after the read.
C8_XferOneSession ==
    /\ \A t \in Threads :
          pc[t] = "io2" =>
             /\ mtx[bus[t]] = t
             /\ Len(trace[t]) = 3
             /\ file[bus[t]] = trace[t][1].r
             /\ IsOpen(file[bus[t]])
             /\ fdtab[file[bus[t]]].by = t
             /\ \A u \in Threads \ {t} : bus[u] # bus[t] \/ trace[u] = <<>>
    /\ (Returned /\ ret.op = "Xfer" /\ BoundOk(ret.trace)
          /\ ret.trace[3].r = ret.len) =>
             /\ Len(ret.trace) >= 5
             /\ ret.trace[3].c = "write"
             /\ ret.trace[4].c = "read"
             /\ ret.trace[3].fd = ret.trace[1].r
             /\ ret.trace[4].fd = ret.trace[1].r
             /\ ret.trace[3].h = ret.t
             /\ ret.trace[4].h = ret.t
             /\ \A i \in 5..Len(ret.trace) : ret.trace[i].c = "close"
             /\ CallsOn(ret.trace, "open", ret.t) = 1
             /\ CallsOn(ret.trace, "close", ret.t) = 1

\* C8 witness: an Xfer that wrote one byte and read one byte has returned
\* without failure.
C8_Witness ==
    /\ Returned
    /\ ret.op = "Xfer"
    /\ ret.len = 1
    /\ ret.ilen = 1
    /\ ret.exc = NoExc
    /\ Len(ret.trace) >= 5

\* The names the code gives its operations in the failures it raises.
OperationNames ==
    {"I2CBus::Open(addr)",
     "I2CBus::Read(data, len, addr)",
     "I2CBus::Write(data, len, addr)",
     "I2CBus::Write(dat, addr)",
     "I2CConnection::Xfer(odat, olen, idat, ilen, i2caddr)"}

\* C9: every failure carries the name of the operation that raised it as its
\* origin (who) and the error text as its message (why, what); a short Read
\* yields the message of a read-length mismatch and names Read as origin.
C9_FailureNamesOrigin ==
    (Returned /\ ret.exc # NoExc) =>
       /\ who(ret.exc) \in OperationNames
       /\ why(ret.exc) \notin OperationNames
       /\ what(ret.exc) = why(ret.exc)
       /\ (ret.op = "Read" /\ BoundOk(ret.trace)) =>
             /\ why(ret.exc) = "Read length error."
             /\ who(ret.exc) = "I2CBus::Read(data, len, addr)"

\* C10: when the device file cannot be opened the call raises the generic
\* failure, issues no bind, read, write or close, and leaves the handle
\* field at -1.
C10_OpenFailure ==
    /\ \A t \in Threads :
          (Len(trace[t]) >= 1 /\ trace[t][1].r < 0) =>
             /\ Len(trace[t]) = 1
             /\ file[bus[t]] = NoFile
             /\ pend[t].type = "I2CException"
    /\ (Returned /\ Len(ret.trace) >= 1 /\ ret.trace[1].r < 0) =>
          /\ ret.exc.type = "I2CException"
          /\ Len(ret.trace) = 1
          /\ file[ret.bus] = NoFile

\* C10 witness: a call whose ::open failed has returned.
C10_Witness ==
    /\ Returned
    /\ Len(ret.trace) = 1
    /\ ret.trace[1].c = "open"
    /\ ret.trace[1].r < 0

\* The number of platform calls c in a trace.
NumCalls(tr, c) == Cardinality({i \in 1..Len(tr) : tr[i].c = c})

\* The reads and writes a call of operation o may issue at most.
MaxReads(o)  == IF o \in {"Read", "Xfer"} THEN 1 ELSE 0
MaxWrites(o) == IF o \in {"Write", "WriteStr", "Xfer"} THEN 1 ELSE 0

\* The last ::read / ::write of a trace reported a count other than the n
\* bytes requested.
ShortAt(tr, i, n) == tr[i].c \in {"read", "write"} /\ tr[i].r # n

\* C11: no transfer is retried: within one call Read issues at most one
\* platform read, Write at most one platform write, Xfer at most one write
\* and one read, whatever they report; a count that differs from the
\* request makes the call fail, with nothing issued after it but the close.
C11_NoTransferRetry ==
    /\ \A t \in Threads :
          /\ NumCalls(trace[t], "read") <= MaxReads(op[t])
          /\ NumCalls(trace[t], "write") <= MaxWrites(op[t])
    /\ Returned =>
          /\ NumCalls(ret.trace, "read") <= MaxReads(ret.op)
          /\ NumCalls(ret.trace, "write") <= MaxWrites(ret.op)
          /\ \A i \in 1..Len(ret.trace) :
                ShortAt(ret.trace, i,
                        IF ret.op = "Xfer" /\ i = 4 THEN ret.ilen ELSE ret.len) =>
                   /\ ret.exc.type = "I2CException"
                   /\ \A j \in (i + 1)..Len(ret.trace) : ret.trace[j].c = "close"

\* C11 witness: an Xfer whose write was complete and whose read came back
\* short has returned, with one write and one read.
C11_Witness ==
    /\ Returned
    /\ ret.op = "Xfer"
    /\ ret.ilen = 1
    /\ NumCalls(ret.trace, "write") = 1
    /\ NumCalls(ret.trace, "read") = 1
    /\ ret.trace[4].r = 0

\* C12: the convenience operation Xfer(addr, idat, ilen, i2caddr) exists,
\* that is, it is among the operations a thread can execute, and a call of
\* it runs as Xfer with olen = 1: it writes one byte and reads only after
\* that write reported one byte.
C12_XferAddrAsXfer ==
    /\ "XferAddr" \in Ops
    /\ \A t \in Threads :
          op[t] = "XferAddr" =>
             /\ len[t] = 1
             /\ HasCall(trace[t], "read") =>
                   (Len(trace[t]) >= 4 /\ trace[t][3].c = "write" /\ trace[t][3].r = 1)

\* Thread t, calling instance b, takes a step.
StepsOn(t, b) ==
    /\ b \in {bus[t], bus'[t]}
    /\ pc'[t] # pc[t] \/ trace'[t] # trace[t]

\* C13: distinct I2CBus instances are independent: the mutex, the handle
\* field and the open platform handle of an instance change only in steps of
\* operations called on that instance, so a session on one instance neither
\* blocks an operation on another nor changes its handle state, while the
\* sessions of the two overlap.
C13_InstancesIndependent ==
    [][\A b \in live :
          (\A t \in Threads : ~StepsOn(t, b)) =>
             /\ mtx'[b] = mtx[b]
             /\ file'[b] = file[b]
             /\ \A f \in Fds : fdtab[f].bus = b => fdtab'[f] = fdtab[f]]_vars

\* The positions of the ::close calls in a trace.
CloseCalls(tr) == {i \in 1..Len(tr) : tr[i].c = "close"}

\* The ::close calls of a trace that came back with EINTR.
Interruptions(tr) == {i \in CloseCalls(tr) : tr[i].e = "EINTR"}

Phase(t) ==
    CASE pc[t] \in {"idle", "lock"}  -> "Idle"
      [] pc[t] \in {"open", "ioctl"} -> "Opening"
      [] pc[t] \in {"io", "io2"}     -> "Operating"
      [] pc[t] \in {"close", "retry"} -> "Closing"
      [] OTHER                        -> "Leaving"

\* Thread t leaves its session in this step or starts to.
Leaves(t) == Phase(t) \notin {"Idle", "Leaving"} /\ Phase(t)' \in {"Idle", "Leaving"}

\* The steps the state machine Idle, Opening, Bound, Operating, Closing, Idle
\* allows short of leaving.
Advances(t) ==
    \/ Phase(t)' = Phase(t)
    \/ Phase(t) = "Idle"      /\ Phase(t)' = "Opening"
    \/ Phase(t) = "Opening"   /\ Phase(t)' \in {"Operating", "Closing"}
    \/ Phase(t) = "Operating" /\ Phase(t)' = "Closing"
    \/ Phase(t) = "Leaving"   /\ Phase(t)' = "Idle"

\* Thread t is in a public operation, or enters or leaves one in this step,
\* rather than in the destructor.
InOperation(t) == op[t] # "~I2CBus" /\ op'[t] # "~I2CBus"

\* C15 as stated: a session leaves every state other than Idle through
\* Closing only, on success and on failure, a failed open of the device file
\* included.
C15_ClosingOnEveryPath ==
    [][\A t \in Threads :
          InOperation(t) =>
             /\ Advances(t) \/ Leaves(t)
             /\ Leaves(t) => Phase(t) = "Closing"]_vars

\* C15 as amended: a session that has opened the device file leaves through
\* Closing only, on success and on failure; a session whose open of the device
\* file fails leaves from Opening without Closing, with the handle absent and
\* the open failure as its outcome.
C15_ClosingUnlessOpenFailed ==
    [][\A t \in Threads :
          InOperation(t) =>
             /\ Advances(t) \/ Leaves(t)
             /\ Leaves(t) =>
                   \/ Phase(t) = "Closing"
                   \/ /\ pc[t] = "open"
                      /\ trace'[t][Len(trace'[t])].c = "open"
                      /\ trace'[t][Len(trace'[t])].r < 0
                      /\ file'[bus[t]] = NoFile
                      /\ pend'[t] = OpenError(bus[t])]_vars

\* C15 witness: a call has returned whose open of the device file failed:
\* ::open is its only platform call, it went through no ::close and the
\* handle is absent.
C15_Witness ==
    /\ Returned
    /\ ret.exc = OpenError(ret.bus)
    /\ Len(ret.trace) = 1
    /\ ret.trace[1].c = "open"
    /\ ret.trace[1].r < 0
    /\ file[ret.bus] = NoFile

\* Thread t runs the destructor of an instance.
Destroying(t) == op[t] = "~I2CBus"

\* C16: Close is idempotent.  The Close of the destructor comes after the
\* Close that ended the last operation, or after construction, and finds no
\* handle: it issues no platform call and leaves the handle absent, so the
\* instance is as the Close before left it, with no descriptor of its own.
C16_CloseIdempotent ==
    \A t \in Threads :
       Destroying(t) =>
          /\ pc[t] \in {"close", "fin"}
          /\ trace[t] = <<>>
          /\ file[bus[t]] = NoFile
          /\ HandlesOf(bus[t]) = {}
          /\ mtx[bus[t]] = Free

\* C16 witness: the Close of the destructor has returned on an instance that
\* had opened the device file, and closed it, in an operation before.
C16_Witness ==
    \E t \in Threads :
       /\ Destroying(t)
       /\ pc[t] = "fin"
       /\ bus[t] \in opened
       /\ trace[t] = <<>>

\* Thread t is about to issue a ::read or a ::write.
AtTransfer(t) == pc[t] \in {"io", "io2"}

\* C17: every ::read and ::write of a public operation is issued on a handle
\* that is open, was opened by the caller in this session and is bound to
\* the address of this call; none is issued on an absent handle or on a
\* handle bound for another caller.
C17_TransferOnBoundHandle ==
    \A t \in Threads :
       AtTransfer(t) =>
          /\ file[bus[t]] # NoFile
          /\ IsOpen(file[bus[t]])
          /\ fdtab[file[bus[t]]].by = t
          /\ fdtab[file[bus[t]]].bus = bus[t]
          /\ fdtab[file[bus[t]]].slave = addr[t]

\* A ::read or ::write of this trace reported an error.
TransferError(tr) ==
    \E i \in 1..Len(tr) : tr[i].c \in {"read", "write"} /\ tr[i].r < 0

\* C18: whenever a ::read or ::write of Read, Write or Xfer reports an error
\* (-1), the operation ends with the generic failure, whatever the length
\* asked for, zero and negative lengths included; no operation returns
\* without failure after a platform call that reported an error.
C18_PlatformErrorRaises ==
    (Returned /\ TransferError(ret.trace)) =>
       /\ ret.exc # NoExc
       /\ ret.exc.type = "I2CException"

\* C19: when every platform call returns and scheduling is fair, every call
\* of Read, Write or Xfer eventually returns, whatever the platform calls
\* report, repeated interruption of ::close included, and a bus that is in
\* use eventually is idle again, its mutex free and its handle absent.
C19_EveryCallReturns ==
    /\ \A t \in Threads : (pc[t] = "lock") ~> (pc[t] = "idle")
    /\ \A b \in Buses : (mtx[b] # Free) ~> (mtx[b] = Free /\ file[b] = NoFile)

====
